---- MODULE Spec2Model ----
(***************************************************************************)
(* Model of pyanaconda/storage/initialization.py: the configuration of     *)
(* Blivet for the installer, the kickstart defaults, the default disk      *)
(* selection and the reset loop of initialize_storage.                     *)
(*                                                                         *)
(* The collaborators the file only calls (Blivet, libblockdev, the DBus    *)
(* proxies of the Storage module, the error handler) are modelled by the   *)
(* state they expose to this file and by a log of the calls made to them.  *)
(***************************************************************************)
EXTENDS Integers, Sequences, FiniteSets, TLC

VARIABLES
    conf,            \* pyanaconda.core.configuration.anaconda.conf (static)
    program_log_lock, \* blivet.util.program_log_lock
    is_s390,         \* blivet.arch.is_s390()
    blivet_flags,    \* blivet.flags.flags
    platform_flags,  \* what platform.update_from_flags() derived its setup from
    plugins,         \* blockdev.get_available_plugin_names()
    device_name_blacklist, \* udev.device_name_blacklist
    udev_triggers,   \* number of udev.trigger() calls
    storage,         \* the InstallerStorage object
    disk_init,       \* DISK_INITIALIZATION proxy properties
    disk_select,     \* DISK_SELECTION proxy properties
    auto_part,       \* AUTO_PARTITIONING proxy properties
    pc,              \* position of the caller in initialize_storage
    calls,           \* number of invocations of each collaborator call
    attempt_log,     \* calls made by the current reset_storage attempt, in order
    outcome,         \* how the last reset_storage attempt ended
    caught,          \* the exception bound by "except StorageError as e"
    directive,       \* the last value returned by error_handler.cb
    propagated,      \* the exception that left the running function
    returned,        \* the last value returned by select_all_disks_by_default
    last_op          \* the operation performed by the last step

vars == <<conf, program_log_lock, is_s390, blivet_flags, platform_flags, plugins,
          device_name_blacklist, udev_triggers, storage, disk_init,
          disk_select, auto_part, pc, calls, attempt_log, outcome, caught,
          directive, propagated, returned, last_op>>

env_vars == <<program_log_lock, blivet_flags, platform_flags, plugins, device_name_blacklist,
              udev_triggers>>

loop_vars == <<pc, calls, attempt_log, outcome, caught, directive, propagated>>

(***************************************************************************)
(* Bounds of the model.                                                    *)
(***************************************************************************)
\* reset_storage attempts explored in one run of initialize_storage
MaxAttempts == 4
\* calls of an operation explored outside of the reset loop
MaxCalls == 2

(***************************************************************************)
(* Values of the collaborators.                                            *)
(***************************************************************************)
\* the disks of the machine, in the order in which they are discovered
HardwareDisks == <<"sda", "sdb", "sdc">>

Range(s) == {s[i] : i \in 1..Len(s)}

\* pyanaconda.errors: the directive compared with in initialize_storage,
\* and the other directives the error handler returns
ERROR_RAISE == "ERROR_RAISE"

Directives == {ERROR_RAISE, "ERROR_CONTINUE", "ERROR_RETRY"}

\* property values of the DISK_INITIALIZATION proxy
DiskInitValues ==
    { [InitializationMode |-> "CLEARPART_TYPE_ALL",
       DrivesToClear |-> <<"sda">>,
       DevicesToClear |-> <<"sda1">>,
       InitializeLabelsEnabled |-> TRUE,
       FormatUnrecognizedEnabled |-> TRUE],
      [InitializationMode |-> "CLEARPART_TYPE_LINUX",
       DrivesToClear |-> <<"sdb", "sdc">>,
       DevicesToClear |-> <<>>,
       InitializeLabelsEnabled |-> FALSE,
       FormatUnrecognizedEnabled |-> TRUE],
      [InitializationMode |-> "CLEARPART_TYPE_NONE",
       DrivesToClear |-> <<>>,
       DevicesToClear |-> <<"sdc2">>,
       InitializeLabelsEnabled |-> TRUE,
       FormatUnrecognizedEnabled |-> FALSE] }

\* property values of the DISK_SELECTION proxy
DiskSelectValues ==
    { [SelectedDisks |-> <<>>, IgnoredDisks |-> <<>>],
      [SelectedDisks |-> <<>>, IgnoredDisks |-> <<"sdb">>],
      [SelectedDisks |-> <<"sda">>, IgnoredDisks |-> <<"sdb">>],
      [SelectedDisks |-> <<"sda", "sdc">>, IgnoredDisks |-> <<>>] }

\* exceptions: no exception, and the exception raised by a call
NoError == [type |-> "None", attempt |-> 0, origin |-> "none"]

ErrorOf(type, attempt, origin) ==
    [type |-> type, attempt |-> attempt, origin |-> origin]

\* a storage object right after InstallerStorage(), with Blivet's defaults
NewStorage ==
    [default_fstype |-> "ext4",
     default_boot_fstype |-> "ext4",
     default_luks_version |-> "luks2",
     config |-> [clear_part_type |-> "None",
                 clear_part_disks |-> <<>>,
                 clear_part_devices |-> <<>>,
                 initialize_disks |-> FALSE,
                 zero_mbr |-> FALSE],
     ignored_disks |-> <<>>,
     exclusive_disks |-> <<>>,
     disks |-> <<>>]

(***************************************************************************)
(* reset_storage and update_storage_config.                                *)
(***************************************************************************)
\* the proxy properties update_storage_config reads, in order
update_storage_config_reads ==
    <<"InitializationMode", "DrivesToClear", "DevicesToClear",
      "InitializeLabelsEnabled", "FormatUnrecognizedEnabled">>

\* the module reloads with the zFCP reload outside of the s390 branch
reload_calls_zfcp_always ==
    IF ~conf.is_image
    THEN <<"iscsi.startup", "FCOE.ReloadModule", "ZFCP.ReloadModule">>
    ELSE <<>>

\* the module reloads of reset_storage, in order
reload_calls ==
    IF ~conf.is_image
    THEN <<"iscsi.startup", "FCOE.ReloadModule">>
         \o (IF is_s390 THEN <<"ZFCP.ReloadModule">> ELSE <<>>)
    ELSE <<>>

\* every call of one reset_storage attempt, in order
reset_storage_steps ==
    update_storage_config_reads
    \o <<"IgnoredDisks", "SelectedDisks">>
    \o reload_calls
    \o <<"storage.reset">>

\* storage.reset(): the device tree is populated again from the hardware,
\* without the ignored disks and, when given, only with the exclusive disks
Rescan(st) ==
    SelectSeq(HardwareDisks,
              LAMBDA d : /\ d \notin Range(st.ignored_disks)
                         /\ \/ st.exclusive_disks = <<>>
                            \/ d \in Range(st.exclusive_disks))

\* the assignments of a reset that configures the storage object only once:
\* a value read again is dropped when the attribute was set before
step_effect_once(st, step) ==
    CASE step = "InitializationMode" /\ st.config.clear_part_type = "None" ->
           [st EXCEPT !.config.clear_part_type = disk_init.InitializationMode]
      [] step = "DrivesToClear" /\ st.config.clear_part_disks = <<>> ->
           [st EXCEPT !.config.clear_part_disks = disk_init.DrivesToClear]
      [] step = "DevicesToClear" /\ st.config.clear_part_devices = <<>> ->
           [st EXCEPT !.config.clear_part_devices = disk_init.DevicesToClear]
      [] step = "InitializeLabelsEnabled" /\ ~st.config.initialize_disks ->
           [st EXCEPT !.config.initialize_disks = disk_init.InitializeLabelsEnabled]
      [] step = "FormatUnrecognizedEnabled" /\ ~st.config.zero_mbr ->
           [st EXCEPT !.config.zero_mbr = disk_init.FormatUnrecognizedEnabled]
      [] step = "IgnoredDisks" /\ st.ignored_disks = <<>> ->
           [st EXCEPT !.ignored_disks = disk_select.IgnoredDisks]
      [] step = "SelectedDisks" /\ st.exclusive_disks = <<>> ->
           [st EXCEPT !.exclusive_disks = disk_select.SelectedDisks]
      [] step = "storage.reset" ->
           [st EXCEPT !.disks = Rescan(st)]
      [] OTHER -> st

\* the assignment made with the value of one completed call
step_effect(st, step) ==
    CASE step = "InitializationMode" ->
           [st EXCEPT !.config.clear_part_type = disk_init.InitializationMode]
      [] step = "DrivesToClear" ->
           [st EXCEPT !.config.clear_part_disks = disk_init.DrivesToClear]
      [] step = "DevicesToClear" ->
           [st EXCEPT !.config.clear_part_devices = disk_init.DevicesToClear]
      [] step = "InitializeLabelsEnabled" ->
           [st EXCEPT !.config.initialize_disks = disk_init.InitializeLabelsEnabled]
      [] step = "FormatUnrecognizedEnabled" ->
           [st EXCEPT !.config.zero_mbr = disk_init.FormatUnrecognizedEnabled]
      [] step = "IgnoredDisks" ->
           [st EXCEPT !.ignored_disks = disk_select.IgnoredDisks]
      [] step = "SelectedDisks" ->
           [st EXCEPT !.exclusive_disks = disk_select.SelectedDisks]
      [] step = "storage.reset" ->
           [st EXCEPT !.disks = Rescan(st)]
      [] OTHER -> st

\* the storage object after the first n calls of steps completed
RECURSIVE run_steps(_, _, _)
run_steps(st, steps, n) ==
    IF n = 0 THEN st
    ELSE step_effect(run_steps(st, steps, n - 1), steps[n])

\* the call counters after the calls of log were invoked
count_calls(cs, log) ==
    [c \in DOMAIN cs |->
        cs[c] + Cardinality({i \in 1..Len(log) : log[i] = c})]

CallNames ==
    {"storage.shutdown", "reset_storage", "error_handler.cb",
     "InitializationMode", "DrivesToClear", "DevicesToClear",
     "InitializeLabelsEnabled", "FormatUnrecognizedEnabled",
     "IgnoredDisks", "SelectedDisks", "iscsi.startup", "FCOE.ReloadModule",
     "ZFCP.ReloadModule", "storage.reset", "blockdev.reinit",
     "select_all_disks_by_default", "SetSelectedDisks",
     "raise StorageError"}

\* the exception types a call can raise: every call can fail with an
\* exception that is no StorageError (a DBus error, a misconfiguration);
\* StorageError is what storage.reset() raises
raisable(step) ==
    IF step = "storage.reset" THEN {"StorageError", "OtherError"}
    ELSE {"OtherError"}

(***************************************************************************)
(* initialize_storage.                                                     *)
(***************************************************************************)
\* a handler that catches every exception
except_Exception(type) == type # "None"

\* except StorageError: the exception types the handler of the loop catches
except_StorageError(type) == type = "StorageError"

\* storage.shutdown()
initialize_storage_shutdown ==
    /\ pc = "start"
    /\ calls' = [calls EXCEPT !["storage.shutdown"] = @ + 1]
    /\ pc' = "try"
    /\ last_op' = "storage.shutdown"
    /\ UNCHANGED <<conf, is_s390, env_vars, storage, disk_init, disk_select,
                   auto_part, attempt_log, outcome, caught, directive,
                   propagated, returned>>

\* try: reset_storage(storage), where call number fail_at raises an
\* exception of the given type (fail_at = 0: no call raises)
initialize_storage_try(fail_at, type) ==
    /\ pc = "try"
    /\ calls["reset_storage"] < MaxAttempts
    /\ LET steps == reset_storage_steps
           invoked == IF fail_at = 0 THEN steps ELSE SubSeq(steps, 1, fail_at)
           completed == IF fail_at = 0 THEN Len(steps) ELSE fail_at - 1
           attempt == calls["reset_storage"] + 1
           error == IF fail_at = 0 THEN NoError
                    ELSE ErrorOf(type, attempt, steps[fail_at])
       IN /\ fail_at \in 0..Len(steps)
          /\ fail_at # 0 => type \in raisable(steps[fail_at])
          /\ fail_at = 0 => type = "None"
          /\ storage' = run_steps(storage, steps, completed)
          /\ attempt_log' = invoked
          /\ calls' = count_calls(
                          [calls EXCEPT
                              !["reset_storage"] = @ + 1,
                              !["raise StorageError"] =
                                  IF type = "StorageError" THEN @ + 1 ELSE @],
                          invoked)
          /\ outcome' = type
          /\ IF type = "None"
             THEN /\ pc' = "else"
                  /\ UNCHANGED <<caught, propagated>>
             ELSE IF except_StorageError(type)
             THEN /\ pc' = "except"
                  /\ caught' = error
                  /\ UNCHANGED propagated
             ELSE /\ pc' = "fatal"
                  /\ propagated' = error
                  /\ UNCHANGED caught
    /\ last_op' = "reset_storage"
    /\ UNCHANGED <<conf, is_s390, env_vars, disk_init, disk_select, auto_part,
                   directive, returned>>

\* else: break
initialize_storage_else ==
    /\ pc = "else"
    /\ pc' = "done"
    /\ last_op' = "break"
    /\ UNCHANGED <<conf, is_s390, env_vars, storage, disk_init, disk_select,
                   auto_part, calls, attempt_log, outcome, caught, directive,
                   propagated, returned>>

\* except StorageError as e: error_handler.cb(e) returns the directive d;
\* while the handler runs the user may change the settings of the Storage
\* module to di and ds
initialize_storage_except(d, di, ds) ==
    /\ pc = "except"
    /\ calls' = [calls EXCEPT !["error_handler.cb"] = @ + 1]
    /\ directive' = d
    /\ disk_init' = di
    /\ disk_select' = ds
    /\ pc' = "handled"
    /\ last_op' = "error_handler.cb"
    /\ UNCHANGED <<conf, is_s390, env_vars, storage, auto_part, attempt_log,
                   outcome, caught, propagated, returned>>

\* the same statement with the branches exchanged
initialize_storage_handled_inverted ==
    /\ pc = "handled"
    /\ IF directive # ERROR_RAISE
       THEN /\ pc' = "raised"
            /\ propagated' = caught
       ELSE /\ pc' = "try"
            /\ UNCHANGED propagated
    /\ last_op' = IF directive # ERROR_RAISE THEN "raise" ELSE "continue"
    /\ UNCHANGED <<conf, is_s390, env_vars, storage, disk_init, disk_select,
                   auto_part, calls, attempt_log, outcome, caught, directive,
                   returned>>

\* the same statement leaving the loop instead of continuing it
initialize_storage_handled_breaks ==
    /\ pc = "handled"
    /\ IF directive = ERROR_RAISE
       THEN /\ pc' = "raised"
            /\ propagated' = caught
       ELSE /\ pc' = "done"
            /\ UNCHANGED propagated
    /\ last_op' = IF directive = ERROR_RAISE THEN "raise" ELSE "break"
    /\ UNCHANGED <<conf, is_s390, env_vars, storage, disk_init, disk_select,
                   auto_part, calls, attempt_log, outcome, caught, directive,
                   returned>>

\* the same statement in a loop that starts with storage.shutdown()
initialize_storage_handled_restarts ==
    /\ pc = "handled"
    /\ IF directive = ERROR_RAISE
       THEN /\ pc' = "raised"
            /\ propagated' = caught
       ELSE /\ pc' = "start"
            /\ UNCHANGED propagated
    /\ last_op' = IF directive = ERROR_RAISE THEN "raise" ELSE "continue"
    /\ UNCHANGED <<conf, is_s390, env_vars, storage, disk_init, disk_select,
                   auto_part, calls, attempt_log, outcome, caught, directive,
                   returned>>

\* the same statement in a loop that gives up after two attempts
initialize_storage_handled_capped ==
    /\ pc = "handled"
    /\ IF directive = ERROR_RAISE \/ calls["reset_storage"] >= 2
       THEN /\ pc' = "raised"
            /\ propagated' = caught
       ELSE /\ pc' = "try"
            /\ UNCHANGED propagated
    /\ last_op' = IF pc' = "raised" THEN "raise" ELSE "continue"
    /\ UNCHANGED <<conf, is_s390, env_vars, storage, disk_init, disk_select,
                   auto_part, calls, attempt_log, outcome, caught, directive,
                   returned>>

\* if ... == ERROR_RAISE: raise, else: continue
initialize_storage_handled ==
    /\ pc = "handled"
    /\ IF directive = ERROR_RAISE
       THEN /\ pc' = "raised"
            /\ propagated' = caught
       ELSE /\ pc' = "try"
            /\ UNCHANGED propagated
    /\ last_op' = IF directive = ERROR_RAISE THEN "raise" ELSE "continue"
    /\ UNCHANGED <<conf, is_s390, env_vars, storage, disk_init, disk_select,
                   auto_part, calls, attempt_log, outcome, caught, directive,
                   returned>>

initialize_storage ==
    \/ initialize_storage_shutdown
    \/ \E fail_at \in 0..Len(reset_storage_steps),
          type \in {"None", "StorageError", "OtherError"} :
          initialize_storage_try(fail_at, type)
    \/ initialize_storage_else
    \/ \E d \in Directives, di \in DiskInitValues, ds \in DiskSelectValues :
          initialize_storage_except(d, di, ds)
    \/ initialize_storage_handled

(***************************************************************************)
(* enable_installer_mode and load_plugin_s390.                             *)
(***************************************************************************)
\* the flags after assignments that switch the LVM metadata backup over
\* instead of switching it off
installer_flags_toggling(flags) ==
    [flags EXCEPT
        !.debug = TRUE,
        !.lvm_metadata_backup = IF conf.is_image THEN ~@ ELSE @,
        !.auto_dev_updates = TRUE,
        !.selinux_reset_fcon = TRUE,
        !.keep_empty_ext_partitions = FALSE,
        !.discard_new = TRUE,
        !.selinux = conf.selinux,
        !.dmraid = conf.dmraid,
        !.ibft = conf.ibft,
        !.multipath_friendly_names = conf.multipath_friendly_names,
        !.allow_imperfect_devices = conf.allow_imperfect_devices]

\* the flags after the assignments of enable_installer_mode
installer_flags(flags) ==
    [flags EXCEPT
        !.debug = TRUE,
        !.lvm_metadata_backup = IF conf.is_image THEN FALSE ELSE @,
        !.auto_dev_updates = TRUE,
        !.selinux_reset_fcon = TRUE,
        !.keep_empty_ext_partitions = FALSE,
        !.discard_new = TRUE,
        !.selinux = conf.selinux,
        !.dmraid = conf.dmraid,
        !.ibft = conf.ibft,
        !.multipath_friendly_names = conf.multipath_friendly_names,
        !.allow_imperfect_devices = conf.allow_imperfect_devices]

\* does load_plugin_s390 reach blockdev.reinit with the plugins ps available
load_plugin_s390_loads(ps) ==
    /\ ~conf.is_directory
    /\ "s390" \notin ps

\* the available plugins after load_plugin_s390: blockdev.reinit with
\* reload=False adds the required plugin and keeps the loaded ones
load_plugin_s390(ps) ==
    IF load_plugin_s390_loads(ps) THEN ps \cup {"s390"} ELSE ps

device_name_blacklist_value ==
    <<"^mtd", "^mmcblk.+boot", "^mmcblk.+rpmb", "^zram", "^ndblk">>

enable_installer_mode ==
    /\ udev_triggers < MaxCalls
    /\ program_log_lock' = "anaconda"
    /\ blivet_flags' = installer_flags(blivet_flags)
    /\ platform_flags' = blivet_flags'
    /\ plugins' = IF is_s390 THEN load_plugin_s390(plugins) ELSE plugins
    /\ calls' = IF is_s390 /\ load_plugin_s390_loads(plugins)
                THEN [calls EXCEPT !["blockdev.reinit"] = @ + 1]
                ELSE calls
    /\ device_name_blacklist' = device_name_blacklist_value
    /\ udev_triggers' = udev_triggers + 1
    /\ last_op' = "enable_installer_mode"
    /\ UNCHANGED <<conf, is_s390, storage, disk_init, disk_select, auto_part,
                   pc, attempt_log, outcome, caught, directive, propagated,
                   returned>>

(***************************************************************************)
(* create_storage and set_storage_defaults_from_kickstart.                 *)
(***************************************************************************)
\* Python's "a or b" on strings
Or(a, b) == IF a # "" THEN a ELSE b

create_storage ==
    /\ storage' = [NewStorage EXCEPT
                      !.default_fstype = Or(conf.file_system_type, @),
                      !.default_luks_version = Or(conf.luks_version, @)]
    /\ last_op' = "create_storage"
    /\ UNCHANGED <<conf, is_s390, env_vars, disk_init, disk_select, auto_part,
                   loop_vars, returned>>

\* the storage object when the condition is "Enabled or fstype"
kickstart_defaults_either(st) ==
    LET fstype == auto_part.FilesystemType
    IN IF auto_part.Enabled \/ fstype # ""
       THEN [st EXCEPT !.default_fstype = fstype,
                       !.default_boot_fstype = fstype]
       ELSE st

\* the storage object after set_storage_defaults_from_kickstart(st)
kickstart_defaults(st) ==
    LET fstype == auto_part.FilesystemType
    IN IF auto_part.Enabled /\ fstype # ""
       THEN [st EXCEPT !.default_fstype = fstype,
                       !.default_boot_fstype = fstype]
       ELSE st

set_storage_defaults_from_kickstart ==
    /\ storage' = kickstart_defaults(storage)
    /\ last_op' = "set_storage_defaults_from_kickstart"
    /\ UNCHANGED <<conf, is_s390, env_vars, disk_init, disk_select, auto_part,
                   loop_vars, returned>>

(***************************************************************************)
(* select_all_disks_by_default.                                            *)
(***************************************************************************)
\* [d.name for d in storage.disks]
disks_to_select_unfiltered(disks, ignored_disks) == disks

\* [d.name for d in storage.disks if d.name not in ignored_disks]
disks_to_select(disks, ignored_disks) ==
    SelectSeq(disks, LAMBDA d : d \notin Range(ignored_disks))

select_all_disks_by_default ==
    /\ calls["select_all_disks_by_default"] < MaxCalls
    /\ LET selected_disks == disk_select.SelectedDisks
           ignored_disks == disk_select.IgnoredDisks
           all_disks == disks_to_select(storage.disks, ignored_disks)
       IN IF selected_disks = <<>>
          THEN /\ disk_select' = [disk_select EXCEPT !.SelectedDisks = all_disks]
               /\ calls' = [calls EXCEPT
                              !["select_all_disks_by_default"] = @ + 1,
                              !["SetSelectedDisks"] = @ + 1]
               /\ returned' = all_disks
          ELSE /\ UNCHANGED disk_select
               /\ calls' = [calls EXCEPT
                              !["select_all_disks_by_default"] = @ + 1]
               /\ returned' = selected_disks
    /\ last_op' = "select_all_disks_by_default"
    /\ UNCHANGED <<conf, is_s390, env_vars, storage, disk_init, auto_part,
                   pc, attempt_log, outcome, caught, directive, propagated>>

(***************************************************************************)
(* The reset loop: one call of initialize_storage on a new storage object. *)
(***************************************************************************)
DefaultConf ==
    [is_image |-> FALSE, is_directory |-> FALSE, selinux |-> TRUE,
     dmraid |-> TRUE, ibft |-> TRUE, multipath_friendly_names |-> TRUE,
     allow_imperfect_devices |-> FALSE, file_system_type |-> "",
     luks_version |-> ""]

DefaultFlags ==
    [debug |-> FALSE, lvm_metadata_backup |-> TRUE, auto_dev_updates |-> FALSE,
     selinux_reset_fcon |-> FALSE, keep_empty_ext_partitions |-> TRUE,
     discard_new |-> FALSE, selinux |-> FALSE, dmraid |-> TRUE, ibft |-> TRUE,
     multipath_friendly_names |-> TRUE, allow_imperfect_devices |-> FALSE]

InitEnv ==
    /\ program_log_lock = "blivet"
    /\ blivet_flags = DefaultFlags
    /\ platform_flags = DefaultFlags
    /\ plugins = {}
    /\ device_name_blacklist = <<>>
    /\ udev_triggers = 0

InitLoop ==
    /\ pc = "start"
    /\ calls = [c \in CallNames |-> 0]
    /\ attempt_log = <<>>
    /\ outcome = "not attempted"
    /\ caught = NoError
    /\ directive = "None"
    /\ propagated = NoError

Init ==
    /\ conf \in {[DefaultConf EXCEPT !.is_image = i] : i \in BOOLEAN}
    /\ is_s390 \in BOOLEAN
    /\ InitEnv
    /\ storage = NewStorage
    /\ disk_init \in DiskInitValues
    /\ disk_select \in DiskSelectValues
    /\ auto_part = [Enabled |-> FALSE, FilesystemType |-> ""]
    /\ InitLoop
    /\ returned = <<>>
    /\ last_op = "none"

Next == initialize_storage

Spec == Init /\ [][Next]_vars

\* the caller runs on: a call that returns is followed by the next statement
LiveSpec == Init /\ [][Next]_vars /\ WF_vars(Next)

(***************************************************************************)
(* The configuration of Blivet: calls of enable_installer_mode from any    *)
(* static configuration and from several values of the global flags.       *)
(***************************************************************************)
FlagNames == DOMAIN DefaultFlags

ConfValues ==
    {[DefaultConf EXCEPT !.is_image = i, !.is_directory = d, !.selinux = s,
                         !.dmraid = r, !.ibft = b,
                         !.multipath_friendly_names = m,
                         !.allow_imperfect_devices = a] :
        i \in BOOLEAN, d \in BOOLEAN, s \in BOOLEAN, r \in BOOLEAN,
        b \in BOOLEAN, m \in BOOLEAN, a \in BOOLEAN}

InitEnvMode ==
    /\ conf \in ConfValues
    /\ is_s390 \in BOOLEAN
    /\ program_log_lock = "blivet"
    /\ blivet_flags \in {DefaultFlags, [f \in FlagNames |-> TRUE],
                         [f \in FlagNames |-> FALSE]}
    /\ platform_flags = blivet_flags
    /\ plugins \in {{}, {"lvm", "mdraid"}, {"lvm", "s390"}}
    /\ device_name_blacklist = <<>>
    /\ udev_triggers = 0
    /\ storage = NewStorage
    /\ disk_init \in {CHOOSE v \in DiskInitValues : TRUE}
    /\ disk_select = [SelectedDisks |-> <<>>, IgnoredDisks |-> <<>>]
    /\ auto_part = [Enabled |-> FALSE, FilesystemType |-> ""]
    /\ InitLoop
    /\ returned = <<>>
    /\ last_op = "none"

EnvSpec == InitEnvMode /\ [][enable_installer_mode]_vars

(***************************************************************************)
(* The defaults of the storage object: create_storage followed by          *)
(* set_storage_defaults_from_kickstart, for any configured file system.    *)
(***************************************************************************)
FsTypes == {"ext4", "xfs", "btrfs"}

InitDefaults ==
    /\ conf \in {[DefaultConf EXCEPT !.file_system_type = t,
                                     !.luks_version = l] :
                    t \in FsTypes \cup {""}, l \in {"", "luks1"}}
    /\ is_s390 = FALSE
    /\ InitEnv
    /\ storage = NewStorage
    /\ disk_init \in {CHOOSE v \in DiskInitValues : TRUE}
    /\ disk_select = [SelectedDisks |-> <<>>, IgnoredDisks |-> <<>>]
    /\ auto_part \in [Enabled : BOOLEAN, FilesystemType : FsTypes \cup {""}]
    /\ InitLoop
    /\ returned = <<>>
    /\ last_op = "none"

NextDefaults == create_storage \/ set_storage_defaults_from_kickstart

DefaultsSpec == InitDefaults /\ [][NextDefaults]_vars

(***************************************************************************)
(* The default disk selection: calls of select_all_disks_by_default for    *)
(* any discovered disks and any selection.                                 *)
(***************************************************************************)
\* the subsequences of s
RECURSIVE SubSeqs(_)
SubSeqs(s) ==
    IF s = <<>> THEN {<<>>}
    ELSE LET rest == SubSeqs(Tail(s))
         IN rest \cup {<<Head(s)>> \o r : r \in rest}

InitDisks ==
    /\ conf = DefaultConf
    /\ is_s390 = FALSE
    /\ InitEnv
    /\ storage \in {[NewStorage EXCEPT !.disks = d] : d \in SubSeqs(HardwareDisks)}
    /\ disk_init \in {CHOOSE v \in DiskInitValues : TRUE}
    /\ disk_select \in [SelectedDisks : SubSeqs(HardwareDisks),
                        IgnoredDisks : SubSeqs(HardwareDisks)]
    /\ auto_part = [Enabled |-> FALSE, FilesystemType |-> ""]
    /\ InitLoop
    /\ returned = <<>>
    /\ last_op = "none"

DisksSpec == InitDisks /\ [][select_all_disks_by_default]_vars

(***************************************************************************)
(* Properties of the reset loop (Spec, LiveSpec).                          *)
(***************************************************************************)
Terminated == pc \in {"done", "raised", "fatal"}

NonRaise == Directives \ {ERROR_RAISE}

\* C1: when storage.reset() raised a StorageError on the first k attempts,
\* the handler answered each of them with a directive other than "raise"
\* and attempt k+1 succeeded, then storage.reset() was invoked k+1 times, the
\* error handler k times, and no exception left initialize_storage.
C1_RetryUntilSuccess ==
    \A k \in 0..(MaxAttempts + 1) :
        (pc \in {"else", "done"} /\ calls["raise StorageError"] = k)
        => /\ calls["storage.reset"] = k + 1
           /\ calls["reset_storage"] = k + 1
           /\ calls["error_handler.cb"] = k
           /\ k > 0 => directive \in NonRaise
           /\ propagated = NoError

\* the case of the specification: two failures, success at the third attempt
C1_Witness ==
    /\ pc = "done"
    /\ calls["raise StorageError"] = 2
    /\ calls["storage.reset"] = 3
    /\ calls["error_handler.cb"] = 2

\* C2: once the handler returned "raise" for the StorageError of an attempt,
\* that same exception leaves initialize_storage and no further attempt is
\* made: storage.reset() was invoked as often as that attempt's number,
\* which is once when the first attempt failed.
C2_RaisePropagates ==
    directive = ERROR_RAISE
    => \/ pc = "handled"
       \/ /\ pc = "raised"
          /\ propagated = caught
          /\ propagated.type = "StorageError"
          /\ propagated.origin = "storage.reset"
          /\ propagated.attempt = calls["reset_storage"]
          /\ calls["storage.reset"] = propagated.attempt
          /\ calls["error_handler.cb"] = propagated.attempt

\* "raise" on the first error: reset was invoked exactly once
C2_Witness ==
    /\ pc = "raised"
    /\ propagated.type = "StorageError"
    /\ propagated.attempt = 1
    /\ calls["storage.reset"] = 1

Count(log, c) == Cardinality({i \in 1..Len(log) : log[i] = c})

\* C3: on an image target no attempt invokes iscsi.startup, the FCoE
\* ReloadModule or the zFCP ReloadModule; on another target that is not
\* s390 every attempt that reaches storage.reset() has invoked
\* iscsi.startup and the FCoE ReloadModule once each and no attempt invokes the
\* zFCP ReloadModule; the zFCP ReloadModule is invoked only on a target that
\* is no image and on s390.
C3_ModuleReloads ==
    /\ conf.is_image
       => /\ calls["iscsi.startup"] = 0
          /\ calls["FCOE.ReloadModule"] = 0
          /\ calls["ZFCP.ReloadModule"] = 0
    /\ (~conf.is_image /\ ~is_s390)
       => /\ calls["ZFCP.ReloadModule"] = 0
          /\ Count(attempt_log, "storage.reset") = 1
             => /\ Count(attempt_log, "iscsi.startup") = 1
                /\ Count(attempt_log, "FCOE.ReloadModule") = 1
          /\ calls["iscsi.startup"] >= calls["storage.reset"]
          /\ calls["FCOE.ReloadModule"] >= calls["storage.reset"]
    /\ calls["ZFCP.ReloadModule"] > 0 => (~conf.is_image /\ is_s390)

\* a completed reset on a target that is neither an image nor s390
C3_Witness ==
    /\ ~conf.is_image
    /\ ~is_s390
    /\ pc = "done"
    /\ calls["iscsi.startup"] = 2
    /\ calls["FCOE.ReloadModule"] = 2
    /\ calls["storage.reset"] = 2

\* C7: an exception raised during an attempt that is no StorageError leaves
\* initialize_storage at once: the handler is not invoked for it (it was
\* invoked only for the earlier attempts) and no further attempt is made.
C7_OtherErrorsPropagate ==
    outcome = "OtherError"
    => /\ pc = "fatal"
       /\ propagated.type = "OtherError"
       /\ propagated.attempt = calls["reset_storage"]
       /\ calls["error_handler.cb"] = calls["reset_storage"] - 1
       /\ calls["error_handler.cb"] = calls["raise StorageError"]
       /\ caught.attempt < propagated.attempt

\* a failure of the disk-selection service in the second attempt
C7_Witness ==
    /\ pc = "fatal"
    /\ propagated.origin = "IgnoredDisks"
    /\ propagated.attempt = 2
    /\ calls["error_handler.cb"] = 1

\* C8: storage.shutdown() is invoked once, before the first attempt, and
\* not again by a retry.
C8_ShutdownOnce ==
    /\ pc = "start"
       => /\ calls["storage.shutdown"] = 0
          /\ calls["reset_storage"] = 0
    /\ pc # "start" => calls["storage.shutdown"] = 1

\* the third attempt after one shutdown
C8_Witness ==
    /\ calls["reset_storage"] = 3
    /\ calls["error_handler.cb"] = 2
    /\ calls["storage.shutdown"] = 1

\* the calls of an attempt that reached storage.reset(), in their order
InOrder(log) ==
    /\ Len(log) >= 8
    /\ log[1] = "InitializationMode"
    /\ log[2] = "DrivesToClear"
    /\ log[3] = "DevicesToClear"
    /\ log[4] = "InitializeLabelsEnabled"
    /\ log[5] = "FormatUnrecognizedEnabled"
    /\ log[6] = "IgnoredDisks"
    /\ log[7] = "SelectedDisks"
    /\ \A i \in 8..(Len(log) - 1) :
          log[i] \in {"iscsi.startup", "FCOE.ReloadModule", "ZFCP.ReloadModule"}
    /\ log[Len(log)] = "storage.reset"
    /\ \A i \in 1..(Len(log) - 1) : log[i] # "storage.reset"

\* C9: every attempt, a retry included, reads the five properties of the
\* disk-initialization service, then the ignored and the selected disks, then
\* reloads the modules and only then invokes storage.reset(); when
\* storage.reset() is invoked the configuration and the disk lists of the
\* storage object are those of the services at that attempt.
C9_FullResetEachAttempt ==
    (pc \in {"else", "done", "except", "fatal"}
        /\ Count(attempt_log, "storage.reset") > 0)
    => /\ InOrder(attempt_log)
       /\ storage.config.clear_part_type = disk_init.InitializationMode
       /\ storage.config.clear_part_disks = disk_init.DrivesToClear
       /\ storage.config.clear_part_devices = disk_init.DevicesToClear
       /\ storage.config.initialize_disks = disk_init.InitializeLabelsEnabled
       /\ storage.config.zero_mbr = disk_init.FormatUnrecognizedEnabled
       /\ storage.ignored_disks = disk_select.IgnoredDisks
       /\ storage.exclusive_disks = disk_select.SelectedDisks

\* a retry after a directive other than "raise" that reached storage.reset()
C9_Witness ==
    /\ pc = "except"
    /\ calls["reset_storage"] = 3
    /\ calls["storage.reset"] = 3
    /\ directive \in NonRaise
    /\ storage.config.clear_part_type = "CLEARPART_TYPE_NONE"
    /\ storage.exclusive_disks = <<"sda", "sdc">>

\* C10 as stated: the loop is left only by a successful reset or by the
\* handler returning "raise".
C10_OnlySuccessOrRaise ==
    Terminated
    => \/ pc = "done" /\ outcome = "None"
       \/ pc = "raised" /\ directive = ERROR_RAISE

\* the ways out of the loop: a successful reset, the handler returning
\* "raise", an exception that is no StorageError
C10_Exits ==
    Terminated
    => \/ pc = "done" /\ outcome = "None"
       \/ pc = "raised" /\ directive = ERROR_RAISE /\ outcome = "StorageError"
       \/ pc = "fatal" /\ outcome = "OtherError"

\* a directive other than "raise" is followed by another attempt, whatever
\* the number of attempts made
C10_NoRetryCap ==
    (pc = "handled" /\ directive # ERROR_RAISE) => pc' = "try"

\* C10: the loop is left only by a successful reset, by the handler
\* returning "raise" or by an exception that is no StorageError; no number of
\* attempts ends it; once one of the three happened initialize_storage
\* terminates; it is never done after an attempt that failed.
C10_ExitsAndTermination ==
    /\ []C10_Exits
    /\ [][C10_NoRetryCap]_vars
    /\ (outcome = "None" \/ outcome = "OtherError" \/ directive = ERROR_RAISE)
          ~> Terminated
    /\ [](outcome # "None" => pc # "done")

\* the loop left by an exception that is no StorageError, after a retry
C10_Witness ==
    /\ pc = "fatal"
    /\ outcome = "OtherError"
    /\ calls["error_handler.cb"] = 2
    /\ directive \in NonRaise

(***************************************************************************)
(* Properties of select_all_disks_by_default (DisksSpec).                  *)
(***************************************************************************)
\* s holds exactly the elements of disks that are not ignored, in the
\* order of disks
IsSelectionOf(s, disks, ignored) ==
    /\ Range(s) = Range(disks) \ Range(ignored)
    /\ Len(s) = Cardinality(Range(s))
    /\ \A i, j \in 1..Len(s) :
          i < j => \E a, b \in 1..Len(disks) :
                      a < b /\ disks[a] = s[i] /\ disks[b] = s[j]

\* one call: what it returns and writes, from the selection it found
C4_SelectStep ==
    IF disk_select.SelectedDisks = <<>>
    THEN /\ IsSelectionOf(returned', storage.disks, disk_select.IgnoredDisks)
         /\ disk_select'.SelectedDisks = returned'
         /\ disk_select'.IgnoredDisks = disk_select.IgnoredDisks
         /\ calls'["SetSelectedDisks"] = calls["SetSelectedDisks"] + 1
    ELSE /\ returned' = disk_select.SelectedDisks
         /\ disk_select' = disk_select
         /\ calls'["SetSelectedDisks"] = calls["SetSelectedDisks"]

\* C4: with no disk selected, select_all_disks_by_default returns the
\* discovered disks without the ignored ones, in the order of discovery, and
\* writes that list to the service; with disks selected it returns the
\* selection and writes nothing, so a second call changes nothing.
C4_SelectAllDisks == [][C4_SelectStep]_vars

\* the case of the specification, followed by a second call that wrote nothing
C4_Witness ==
    /\ storage.disks = <<"sda", "sdb", "sdc">>
    /\ disk_select.IgnoredDisks = <<"sdb">>
    /\ returned = <<"sda", "sdc">>
    /\ disk_select.SelectedDisks = <<"sda", "sdc">>
    /\ calls["select_all_disks_by_default"] = 2
    /\ calls["SetSelectedDisks"] = 1

(***************************************************************************)
(* Properties of set_storage_defaults_from_kickstart (DefaultsSpec).       *)
(***************************************************************************)
\* one call: the storage object after it, from the settings it found
C5_KickstartStep ==
    last_op' = "set_storage_defaults_from_kickstart"
    => IF auto_part.Enabled /\ auto_part.FilesystemType \in FsTypes
       THEN /\ storage'.default_fstype = auto_part.FilesystemType
            /\ storage'.default_boot_fstype = auto_part.FilesystemType
            /\ storage'.default_luks_version = storage.default_luks_version
            /\ storage'.config = storage.config
       ELSE storage' = storage

\* C5: set_storage_defaults_from_kickstart sets the default and the default
\* boot file system type of the storage object to the configured type when
\* automatic partitioning is enabled and a type is given, and leaves the
\* storage object as it was in every other case.
C5_KickstartDefaults == [][C5_KickstartStep]_vars

\* both defaults set from the kickstart, over another configured default
C5_Witness ==
    /\ last_op = "set_storage_defaults_from_kickstart"
    /\ auto_part = [Enabled |-> TRUE, FilesystemType |-> "xfs"]
    /\ conf.file_system_type = "btrfs"
    /\ storage.default_fstype = "xfs"
    /\ storage.default_boot_fstype = "xfs"

(***************************************************************************)
(* Properties of enable_installer_mode (EnvSpec).                          *)
(***************************************************************************)
\* a call that follows another one changes none of the globals
C6_SecondCall ==
    udev_triggers >= 1
    => /\ blivet_flags' = blivet_flags
       /\ device_name_blacklist' = device_name_blacklist
       /\ plugins' = plugins
       /\ platform_flags' = platform_flags
       /\ program_log_lock' = program_log_lock

\* C6: a call of enable_installer_mode that follows another one leaves the
\* global flags, the device name blacklist and the loaded plugins as the
\* first call left them, for every static configuration.
C6_Idempotent == [][C6_SecondCall]_vars

\* two calls on s390 for an image, from flags that were all set
C6_Witness ==
    /\ udev_triggers = 2
    /\ is_s390
    /\ conf.is_image
    /\ "s390" \in plugins
    /\ calls["blockdev.reinit"] = 1
    /\ ~blivet_flags.lvm_metadata_backup
    /\ blivet_flags.debug

====
